---------------------------- MODULE Spec2Model ----------------------------
(***************************************************************************)
(* Bounded priority event queue of grupo_3_tp_3 (FreeRTOS).                *)
(*                                                                         *)
(* The repository holds two implementations of the same API:               *)
(*   "app" : app/src/priority_queue.c                                      *)
(*   "lib" : unnamed/part_001                                              *)
(* The variable impl records which one a behaviour runs; every operation   *)
(* that differs between the two files has one definition per file.         *)
(*                                                                         *)
(* Two tasks use the queue: ao_ui calls xPriorityQueueSend (through        *)
(* ao_led_send) and ao_led calls xPriorityQueueReceive.  Each call is cut  *)
(* into the steps between which the scheduler may preempt the task.        *)
(***************************************************************************)
EXTENDS Integers, Sequences, FiniteSets, TLC

(******************************* bounds ************************************)
\* Spec: number of send / receive calls issued, finite timeout offered
MaxSendCalls == 3
MaxRecvCalls == 3
FiniteTicks == 2
\* SpecCap: send calls beyond the capacity of the queue, receive calls
CapExtraSends == 1
CapRecvCalls == 1
\* SpecLive: events the producer sends before it stops
LiveSends == 2
OutcomeExtraSends == 2
MaxMsgs == 3
\* LED_ON_PERIOD_TICKS_ (5000 ms), scaled down
LedOnPeriodTicks == 2

(************************* program constants *******************************)
LOW_PRIORITY == 0
MEDIUM_PRIORITY == 1
HIGH_PRIORITY == 2
PQ_MAX_EVENT_SIZE == 10
\* (TickType_t)0xffffffffUL, that is (TickType_t)-1: "wait without timeout";
\* the model only tests a timeout for being this value
portMAX_DELAY == -1

Priorities == {LOW_PRIORITY, MEDIUM_PRIORITY, HIGH_PRIORITY}

\* an event buffer the callee has not written: pq_event_t evt; (no initialiser)
Uninit == -2
\* what such a buffer may hold when the caller reads it: any enumerator or
\* a value outside the enumeration
GARBAGE_PRIORITY == 3
BufferValues == Priorities \cup {GARBAGE_PRIORITY}

Impls == {"app", "lib"}
UI == "ao_ui"
LED == "ao_led"
Tasks == {UI, LED}
Free == "free"
\* why a send fails: the mutex take timed out, or the queue was full
FailCauses == {"timeout", "full"}
\* what xPriorityQueueCreate obtains: the pvPortMalloc block and two semaphores
Resources == {"pq", "mutex", "eventSemaphore"}
NoHandle == "NULL"
\* ao_ui_message_t: the three values ao_task_ has a case for, and any other
Messages == {"AO_UI_MESSAGE_PULSE", "AO_UI_MESSAGE_SHORT", "AO_UI_MESSAGE_LONG", "other"}
NoMessage == "none"
\* the entries of ao_led.info[], indexed by evt.priority
Leds == Priorities

VARIABLES
    impl,            \* which source file is linked
    events,          \* pq->events[0 .. size-1], as a sequence (events[i+1] is C's events[i])
    size,            \* pq->size
    mutex,           \* holder of pq->mutex, or Free
    eventSemaphore,  \* count of pq->eventSemaphore
    pc,              \* position of each task inside its call
    ticksToWait,     \* the ticksToWait argument of the call in progress
    waited,          \* ticks the task has spent blocked in the current xSemaphoreTake
    sendEvt,         \* *event of the send in progress
    evt,             \* *event of the receive in progress (Uninit until written)
    ret,             \* value returned by each task's last completed call
    handed,          \* what the last receive that returned pdPASS left in *event
    sentBag,         \* history: events of the sends that returned pdPASS
    recvBag,         \* history: events handed back by receives that returned pdPASS
    sendCalls,       \* history: number of xPriorityQueueSend calls issued
    recvCalls,       \* history: number of xPriorityQueueReceive calls issued
    failRet,         \* history: value last returned by a send for each cause of failure
    cpc,             \* position inside xPriorityQueueCreate
    allocated,       \* what xPriorityQueueCreate has obtained and not freed
    hpq,             \* the value xPriorityQueueCreate returned (hao_led->hpq)
    rcvEvt,          \* ao_ui's ao_task_: the message taken from its mailbox, or NoMessage
    uiLog,           \* the last line ao_ui's ao_task_ wrote to the logger
    sendsAtTake,     \* history: sendCalls when the message was taken
    msgsTaken,       \* history: number of messages taken from the mailbox
    lpc,             \* ao_led's ao_task_: at its receive, or inside vTaskDelay
    ledOn,           \* the LEDs whose pin is set
    ledHandled,      \* history: receives returned pdPASS that the LED task has acted on
    ledTicks         \* ticks spent in the current vTaskDelay

vars == <<impl, events, size, mutex, eventSemaphore, pc, ticksToWait, waited,
          sendEvt, evt, ret, handed, sentBag, recvBag, sendCalls, recvCalls,
          failRet, cpc, allocated, hpq, rcvEvt, uiLog, sendsAtTake, msgsTaken,
          lpc, ledOn, ledHandled, ledTicks>>

queueVars == <<events, size>>
createVars == <<cpc, allocated, hpq>>
uiVars == <<rcvEvt, uiLog, sendsAtTake, msgsTaken>>
ledVars == <<lpc, ledOn, ledHandled, ledTicks>>
histVars == <<sentBag, recvBag, handed>>

(***************************** heap helpers ********************************)
\* C integer division truncates toward zero: (0 - 1) / 2 = 0
CDiv(a, b) == IF a >= 0 THEN a \div b ELSE -((-a) \div b)

\* C's events[i]
At(evs, i) == evs[i + 1]

swap(evs, i, j) == [evs EXCEPT ![i + 1] = evs[j + 1], ![j + 1] = evs[i + 1]]

\* app/src/priority_queue.c: swaps upward while the child is LOWER than its parent
RECURSIVE heapifyUp_app(_, _)
heapifyUp_app(evs, index) ==
    LET parentIndex == CDiv(index - 1, 2) IN
    IF parentIndex >= 0 /\ At(evs, index) < At(evs, parentIndex)
    THEN heapifyUp_app(swap(evs, index, parentIndex), parentIndex)
    ELSE evs

\* unnamed/part_001: swaps upward while the child is HIGHER than its parent
RECURSIVE heapifyUp_lib(_, _)
heapifyUp_lib(evs, index) ==
    LET parentIndex == CDiv(index - 1, 2) IN
    IF parentIndex >= 0 /\ At(evs, index) > At(evs, parentIndex)
    THEN heapifyUp_lib(swap(evs, index, parentIndex), parentIndex)
    ELSE evs

\* app/src/priority_queue.c: moves the SMALLEST of node and children up
RECURSIVE heapifyDown_app(_, _, _)
heapifyDown_app(evs, sz, index) ==
    LET leftChild == 2 * index + 1
        rightChild == 2 * index + 2
        s1 == IF leftChild < sz /\ At(evs, leftChild) < At(evs, index)
              THEN leftChild ELSE index
        smallest == IF rightChild < sz /\ At(evs, rightChild) < At(evs, s1)
                    THEN rightChild ELSE s1
    IN  IF smallest # index
        THEN heapifyDown_app(swap(evs, index, smallest), sz, smallest)
        ELSE evs

\* unnamed/part_001: moves the LARGEST of node and children up
RECURSIVE heapifyDown_lib(_, _, _)
heapifyDown_lib(evs, sz, index) ==
    LET leftChild == 2 * index + 1
        rightChild == 2 * index + 2
        l1 == IF leftChild < sz /\ At(evs, leftChild) > At(evs, index)
              THEN leftChild ELSE index
        largest == IF rightChild < sz /\ At(evs, rightChild) > At(evs, l1)
                   THEN rightChild ELSE l1
    IN  IF largest # index
        THEN heapifyDown_lib(swap(evs, index, largest), sz, largest)
        ELSE evs

heapifyUp(evs, index) ==
    IF impl = "app" THEN heapifyUp_app(evs, index) ELSE heapifyUp_lib(evs, index)

heapifyDown(evs, sz, index) ==
    IF impl = "app" THEN heapifyDown_app(evs, sz, index)
    ELSE heapifyDown_lib(evs, sz, index)

(************************** FreeRTOS primitives ****************************)
\* xSemaphoreCreateCounting(PQ_MAX_EVENT_SIZE, initial)
SemInitialCount_app == PQ_MAX_EVENT_SIZE
SemInitialCount_lib == 0
SemMaxCount == PQ_MAX_EVENT_SIZE

\* timeout of the mutex take inside xPriorityQueueReceive
RecvMutexTicks_app == portMAX_DELAY
RecvMutexTicks_lib == 10
RecvMutexTicks == IF impl = "app" THEN RecvMutexTicks_app ELSE RecvMutexTicks_lib

\* xSemaphoreGive on a counting semaphore: fails, count unchanged, at the maximum
SemGive(count) == IF count < SemMaxCount THEN count + 1 ELSE count

\* mutant: the give is left out
MutexGive_forgotten(t) == mutex

\* xSemaphoreGive(pq->mutex): only the holder releases it
MutexGive(t) == IF mutex = t THEN Free ELSE mutex

\* the xSemaphoreTake the task is in, and what it waits for
Blocked(t) ==
    \/ pc[t] \in {"s_take_mutex", "r_take_mutex"} /\ mutex # Free
    \/ pc[t] = "r_take_sem" /\ eventSemaphore = 0

TakeTimeout(t) == IF pc[t] = "r_take_mutex" THEN RecvMutexTicks ELSE ticksToWait[t]

EmptyBag == [p \in BufferValues |-> 0]
BagAdd(b, p) == [b EXCEPT ![p] = @ + 1]
BagOfSeq(s) == [p \in BufferValues |-> Cardinality({i \in 1..Len(s) : s[i] = p})]
BagSum(a, b) == [p \in BufferValues |-> a[p] + b[p]]
BagSize(b) == b[LOW_PRIORITY] + b[MEDIUM_PRIORITY] + b[HIGH_PRIORITY] + b[GARBAGE_PRIORITY]

(******************************** Init *************************************)
\* xPriorityQueueCreate returned a queue; no task has called it yet
xPriorityQueueCreate ==
    /\ events = <<>>
    /\ size = 0
    /\ mutex = Free
    /\ eventSemaphore = IF impl = "app" THEN SemInitialCount_app ELSE SemInitialCount_lib

Init ==
    /\ impl \in Impls
    /\ xPriorityQueueCreate
    /\ pc = [t \in Tasks |-> "idle"]
    /\ ticksToWait = [t \in Tasks |-> 0]
    /\ waited = [t \in Tasks |-> 0]
    /\ sendEvt = Uninit
    /\ evt = Uninit
    /\ ret = [t \in Tasks |-> "none"]
    /\ handed = Uninit
    /\ sentBag = EmptyBag
    /\ recvBag = EmptyBag
    /\ sendCalls = 0
    /\ recvCalls = 0
    /\ failRet = [c \in FailCauses |-> "none"]
    /\ cpc = "c_done"
    /\ allocated = Resources
    /\ hpq = "pq"
    /\ rcvEvt = NoMessage
    /\ uiLog = "none"
    /\ sendsAtTake = 0
    /\ msgsTaken = 0
    /\ lpc = "l_receive"
    /\ ledOn = {}
    /\ ledHandled = 0
    /\ ledTicks = 0

(************************* xPriorityQueueCreate ****************************)
\* the program before ao_led_init calls xPriorityQueueCreate: nothing is
\* allocated, the fields of the queue do not exist yet
InitCreate ==
    /\ impl \in Impls
    /\ events = <<>>
    /\ size = Uninit
    /\ mutex = NoHandle
    /\ eventSemaphore = Uninit
    /\ pc = [t \in Tasks |-> "idle"]
    /\ ticksToWait = [t \in Tasks |-> 0]
    /\ waited = [t \in Tasks |-> 0]
    /\ sendEvt = Uninit
    /\ evt = Uninit
    /\ ret = [t \in Tasks |-> "none"]
    /\ handed = Uninit
    /\ sentBag = EmptyBag
    /\ recvBag = EmptyBag
    /\ sendCalls = 0
    /\ recvCalls = 0
    /\ failRet = [c \in FailCauses |-> "none"]
    /\ cpc = "c_malloc"
    /\ allocated = {}
    /\ hpq = "unset"
    /\ rcvEvt = NoMessage
    /\ uiLog = "none"
    /\ sendsAtTake = 0
    /\ msgsTaken = 0
    /\ lpc = "l_receive"
    /\ ledOn = {}
    /\ ledHandled = 0
    /\ ledTicks = 0

\* return from xPriorityQueueCreate
CreateReturn(value) ==
    /\ cpc' = "c_done"
    /\ hpq' = value

\* pq = pvPortMalloc(sizeof(pq_handle_t)); NULL: return NULL; else pq->size = 0
CreateMalloc ==
    /\ cpc = "c_malloc"
    /\ \E ok \in BOOLEAN :
          IF ok
          THEN /\ allocated' = allocated \cup {"pq"}
               /\ size' = 0
               /\ cpc' = "c_mutex"
               /\ hpq' = hpq
          ELSE /\ CreateReturn(NoHandle)
               /\ UNCHANGED <<allocated, size>>
    /\ UNCHANGED <<impl, ledVars, uiVars, events, mutex, eventSemaphore, pc, ticksToWait, waited,
                   sendEvt, evt, ret, histVars, sendCalls, recvCalls, failRet>>

\* pq->mutex = xSemaphoreCreateMutex(); NULL: vPortFree(pq); return NULL
CreateMutex ==
    /\ cpc = "c_mutex"
    /\ \E ok \in BOOLEAN :
          IF ok
          THEN /\ allocated' = allocated \cup {"mutex"}
               /\ mutex' = Free
               /\ cpc' = "c_counting"
               /\ hpq' = hpq
          ELSE /\ allocated' = allocated \ {"pq"}
               /\ CreateReturn(NoHandle)
               /\ mutex' = mutex
    /\ UNCHANGED <<impl, ledVars, uiVars, queueVars, eventSemaphore, pc, ticksToWait, waited,
                   sendEvt, evt, ret, histVars, sendCalls, recvCalls, failRet>>

\* pq->eventSemaphore = xSemaphoreCreateCounting(PQ_MAX_EVENT_SIZE, initial);
\* NULL: vPortFree(pq); return NULL; else return pq
CreateCounting ==
    /\ cpc = "c_counting"
    /\ \E ok \in BOOLEAN :
          IF ok
          THEN /\ allocated' = allocated \cup {"eventSemaphore"}
               /\ eventSemaphore' = IF impl = "app" THEN SemInitialCount_app
                                                    ELSE SemInitialCount_lib
               /\ CreateReturn("pq")
          ELSE /\ allocated' = allocated \ {"pq"}
               /\ CreateReturn(NoHandle)
               /\ eventSemaphore' = eventSemaphore
    /\ UNCHANGED <<impl, ledVars, uiVars, queueVars, mutex, pc, ticksToWait, waited,
                   sendEvt, evt, ret, histVars, sendCalls, recvCalls, failRet>>


(************************** call and return ********************************)
\* return from xPriorityQueueSend / xPriorityQueueReceive: the arguments die
Return(t, value) ==
    /\ pc' = [pc EXCEPT ![t] = "idle"]
    /\ ret' = [ret EXCEPT ![t] = value]
    /\ ticksToWait' = [ticksToWait EXCEPT ![t] = 0]
    /\ waited' = [waited EXCEPT ![t] = 0]

Goto(t, label) ==
    /\ pc' = [pc EXCEPT ![t] = label]
    /\ UNCHANGED <<ret, ticksToWait, waited>>

\* xSemaphoreTake returned pdTRUE and the call reads its timeout no more
Taken(t, label) ==
    /\ pc' = [pc EXCEPT ![t] = label]
    /\ ticksToWait' = [ticksToWait EXCEPT ![t] = 0]
    /\ waited' = [waited EXCEPT ![t] = 0]
    /\ UNCHANGED ret

\* the timeout of the xSemaphoreTake task t is blocked in has expired
TimedOut(t) ==
    /\ Blocked(t)
    /\ TakeTimeout(t) # portMAX_DELAY
    /\ waited[t] >= TakeTimeout(t)

(*************************** xPriorityQueueSend ****************************)
\* mutant: the capacity test off by one (PQ_MAX_EVENT_SIZE < pq->size)
QueueFull_offByOne(sz) == PQ_MAX_EVENT_SIZE < sz

\* PQ_MAX_EVENT_SIZE <= pq->size
QueueFull(sz) == PQ_MAX_EVENT_SIZE <= sz

\* ao_led_send(&ao_led, sendEvt) -> xPriorityQueueSend(pq, &evt, ticksToWait)
SendCall(p, tw, maxCalls) ==
    /\ hpq = "pq"
    /\ pc[UI] = "idle"
    /\ sendCalls < maxCalls
    /\ sendCalls' = sendCalls + 1
    /\ sendEvt' = p
    /\ pc' = [pc EXCEPT ![UI] = "s_take_mutex"]
    /\ ret' = [ret EXCEPT ![UI] = "none"]
    /\ ticksToWait' = [ticksToWait EXCEPT ![UI] = tw]
    /\ waited' = [waited EXCEPT ![UI] = 0]
    /\ UNCHANGED <<impl, ledVars, uiVars, createVars, failRet, queueVars, mutex, eventSemaphore, evt, histVars, recvCalls>>

\* pdTRUE == xSemaphoreTake(pq->mutex, ticksToWait); ticksToWait and the ticks
\* spent blocked are kept until the capacity test has been made
SendTakeMutex ==
    /\ pc[UI] = "s_take_mutex"
    /\ mutex = Free
    /\ mutex' = UI
    /\ Goto(UI, "s_check")
    /\ UNCHANGED <<impl, ledVars, uiVars, createVars, failRet, queueVars, eventSemaphore, sendEvt, evt, histVars,
                   sendCalls, recvCalls>>

\* mutant: the result of the take is not tested and the send goes on to insert
SendMutexTimeout_unchecked ==
    /\ pc[UI] = "s_take_mutex"
    /\ TimedOut(UI)
    /\ Taken(UI, "s_check")
    /\ UNCHANGED <<impl, ledVars, uiVars, createVars, failRet, queueVars, mutex, eventSemaphore, sendEvt, evt, histVars,
                   sendCalls, recvCalls>>

\* the take timed out: return pdFAIL
SendMutexTimeout ==
    /\ pc[UI] = "s_take_mutex"
    /\ TimedOut(UI)
    /\ Return(UI, "pdFAIL")
    /\ sendEvt' = Uninit
    /\ failRet' = [failRet EXCEPT !["timeout"] = ret'[UI]]
    /\ UNCHANGED <<impl, ledVars, uiVars, createVars, queueVars, mutex, eventSemaphore, evt, histVars,
                   sendCalls, recvCalls>>

\* mutant: the refusal of a full queue returns pdPASS
SendFull_reportsPass ==
    /\ pc[UI] = "s_check"
    /\ QueueFull(size)
    /\ mutex' = MutexGive(UI)
    /\ Return(UI, "pdPASS")
    /\ sendEvt' = Uninit
    /\ failRet' = [failRet EXCEPT !["full"] = ret'[UI]]
    /\ UNCHANGED <<impl, ledVars, uiVars, createVars, queueVars, eventSemaphore, evt, histVars, sendCalls, recvCalls>>

\* queue full: xSemaphoreGive(pq->mutex); return pdFAIL
SendFull ==
    /\ pc[UI] = "s_check"
    /\ QueueFull(size)
    /\ mutex' = MutexGive(UI)
    /\ Return(UI, "pdFAIL")
    /\ sendEvt' = Uninit
    /\ failRet' = [failRet EXCEPT !["full"] = ret'[UI]]
    /\ UNCHANGED <<impl, ledVars, uiVars, createVars, queueVars, eventSemaphore, evt, histVars, sendCalls, recvCalls>>

\* pq->events[pq->size] = *event; pq->size++
SendInsert ==
    /\ pc[UI] = "s_check"
    /\ ~QueueFull(size)
    /\ events' = Append(events, sendEvt)
    /\ size' = size + 1
    /\ Taken(UI, "s_heapify")
    /\ UNCHANGED <<impl, ledVars, uiVars, createVars, failRet, mutex, eventSemaphore, sendEvt, evt, histVars,
                   sendCalls, recvCalls>>

\* _heapifyUp(pq, pq->size - 1)
SendHeapify ==
    /\ pc[UI] = "s_heapify"
    /\ events' = heapifyUp(events, size - 1)
    /\ Goto(UI, "s_give_sem")
    /\ UNCHANGED <<impl, ledVars, uiVars, createVars, failRet, size, mutex, eventSemaphore, sendEvt, evt, histVars,
                   sendCalls, recvCalls>>

\* xSemaphoreGive(pq->eventSemaphore)
SendGiveSem ==
    /\ pc[UI] = "s_give_sem"
    /\ eventSemaphore' = SemGive(eventSemaphore)
    /\ Goto(UI, "s_give_mutex")
    /\ UNCHANGED <<impl, ledVars, uiVars, createVars, failRet, queueVars, mutex, sendEvt, evt, histVars,
                   sendCalls, recvCalls>>

\* xSemaphoreGive(pq->mutex); return pdPASS
SendGiveMutex ==
    /\ pc[UI] = "s_give_mutex"
    /\ mutex' = MutexGive(UI)
    /\ Return(UI, "pdPASS")
    /\ sentBag' = BagAdd(sentBag, sendEvt)
    /\ sendEvt' = Uninit
    /\ UNCHANGED <<impl, ledVars, uiVars, createVars, failRet, queueVars, eventSemaphore, evt, recvBag, handed,
                   sendCalls, recvCalls>>

(************************* xPriorityQueueReceive ***************************)
\* events[0] = events[size - 1]; size-- : the occupied prefix that is left
MoveLastToRoot(evs, sz) ==
    IF sz = 1 THEN <<>>
    ELSE <<At(evs, sz - 1)>> \o SubSeq(evs, 2, sz - 1)

\* xPriorityQueueReceive(hao->hpq, &evt, ticksToWait); evt is not initialised
RecvCall(tw, maxCalls) ==
    /\ hpq = "pq"
    /\ pc[LED] = "idle"
    /\ recvCalls < maxCalls
    /\ recvCalls' = recvCalls + 1
    /\ evt' = Uninit
    /\ pc' = [pc EXCEPT ![LED] = "r_take_sem"]
    /\ ret' = [ret EXCEPT ![LED] = "none"]
    /\ ticksToWait' = [ticksToWait EXCEPT ![LED] = tw]
    /\ waited' = [waited EXCEPT ![LED] = 0]
    /\ UNCHANGED <<impl, ledVars, uiVars, createVars, failRet, queueVars, mutex, eventSemaphore, sendEvt, histVars, sendCalls>>

\* pdTRUE == xSemaphoreTake(pq->eventSemaphore, ticksToWait)
RecvTakeSem ==
    /\ pc[LED] = "r_take_sem"
    /\ eventSemaphore > 0
    /\ eventSemaphore' = eventSemaphore - 1
    /\ Taken(LED, "r_take_mutex")
    /\ UNCHANGED <<impl, ledVars, uiVars, createVars, failRet, queueVars, mutex, sendEvt, evt, histVars,
                   sendCalls, recvCalls>>

\* the take of the semaphore timed out: return pdFAIL
RecvSemTimeout ==
    /\ pc[LED] = "r_take_sem"
    /\ TimedOut(LED)
    /\ Return(LED, "pdFAIL")
    /\ UNCHANGED <<impl, ledVars, uiVars, createVars, failRet, queueVars, mutex, eventSemaphore, sendEvt, evt, histVars,
                   sendCalls, recvCalls>>

\* xSemaphoreTake(pq->mutex, portMAX_DELAY)   (app)
\* pdTRUE == xSemaphoreTake(pq->mutex, 10U)   (lib)
RecvTakeMutex ==
    /\ pc[LED] = "r_take_mutex"
    /\ mutex = Free
    /\ mutex' = LED
    /\ Taken(LED, "r_check")
    /\ UNCHANGED <<impl, ledVars, uiVars, createVars, failRet, queueVars, eventSemaphore, sendEvt, evt, histVars,
                   sendCalls, recvCalls>>

\* mutant: the result of the timed take is not tested (as app does with its
\* untimed take) and the task goes on into the critical section
RecvMutexTimeout_unchecked ==
    /\ pc[LED] = "r_take_mutex"
    /\ TimedOut(LED)
    /\ Taken(LED, "r_check")
    /\ UNCHANGED <<impl, ledVars, uiVars, createVars, failRet, queueVars, mutex, eventSemaphore, sendEvt, evt, histVars,
                   sendCalls, recvCalls>>

\* lib only: the 10 ticks ran out with the mutex still held: return pdFAIL
\* (the semaphore count taken before is not given back)
RecvMutexTimeout ==
    /\ pc[LED] = "r_take_mutex"
    /\ TimedOut(LED)
    /\ Return(LED, "pdFAIL")
    /\ UNCHANGED <<impl, ledVars, uiVars, createVars, failRet, queueVars, mutex, eventSemaphore, sendEvt, evt, histVars,
                   sendCalls, recvCalls>>

\* 0 < pq->size: *event = events[0]; events[0] = events[size - 1]; size--
RecvRemove ==
    /\ pc[LED] = "r_check"
    /\ 0 < size
    /\ evt' = At(events, 0)
    /\ events' = MoveLastToRoot(events, size)
    /\ size' = size - 1
    /\ Goto(LED, "r_heapify")
    /\ UNCHANGED <<impl, ledVars, uiVars, createVars, failRet, mutex, eventSemaphore, sendEvt, histVars,
                   sendCalls, recvCalls>>

\* pq->size == 0: the body of the if is skipped
RecvEmpty ==
    /\ pc[LED] = "r_check"
    /\ ~(0 < size)
    /\ Goto(LED, "r_give_mutex")
    /\ UNCHANGED <<impl, ledVars, uiVars, createVars, failRet, queueVars, mutex, eventSemaphore, sendEvt, evt,
                   histVars, sendCalls, recvCalls>>

\* _heapifyDown(pq, 0)
RecvHeapify ==
    /\ pc[LED] = "r_heapify"
    /\ events' = heapifyDown(events, size, 0)
    /\ Goto(LED, "r_give_mutex")
    /\ UNCHANGED <<impl, ledVars, uiVars, createVars, failRet, size, mutex, eventSemaphore, sendEvt, evt, histVars,
                   sendCalls, recvCalls>>

\* xSemaphoreGive(pq->mutex); return pdPASS.  The caller then reads *event:
\* the event copied out, or whatever its uninitialised buffer holds
RecvGiveMutex ==
    /\ pc[LED] = "r_give_mutex"
    /\ mutex' = MutexGive(LED)
    /\ Return(LED, "pdPASS")
    /\ \E v \in BufferValues :
          /\ evt # Uninit => v = evt
          /\ handed' = v
          /\ recvBag' = BagAdd(recvBag, v)
    /\ evt' = Uninit
    /\ UNCHANGED <<impl, ledVars, uiVars, createVars, failRet, queueVars, eventSemaphore, sendEvt, sentBag,
                   sendCalls, recvCalls>>

(******************************** time *************************************)
\* a task blocked in a take with a finite timeout that has not run out yet
Waiting(t) ==
    /\ Blocked(t)
    /\ TakeTimeout(t) # portMAX_DELAY
    /\ waited[t] < TakeTimeout(t)

\* one tick of the scheduler's clock
Tick ==
    /\ \E t \in Tasks : Waiting(t)
    /\ waited' = [t \in Tasks |-> IF Waiting(t) THEN waited[t] + 1 ELSE waited[t]]
    /\ UNCHANGED <<impl, ledVars, uiVars, createVars, failRet, queueVars, mutex, eventSemaphore, pc, ticksToWait, sendEvt,
                   evt, ret, histVars, sendCalls, recvCalls>>

(**************************** specifications *******************************)
\* the steps of a send that finds room (fewer than PQ_MAX_EVENT_SIZE sends issued)
SendStepsWithRoom ==
    \/ SendTakeMutex
    \/ SendMutexTimeout
    \/ SendInsert
    \/ SendHeapify
    \/ SendGiveSem
    \/ SendGiveMutex

SendSteps ==
    \/ SendStepsWithRoom
    \/ SendFull

RecvSteps ==
    \/ RecvTakeSem
    \/ RecvSemTimeout
    \/ RecvTakeMutex
    \/ RecvMutexTimeout
    \/ RecvRemove
    \/ RecvEmpty
    \/ RecvHeapify
    \/ RecvGiveMutex

SendTimeouts == {0, FiniteTicks}
RecvTimeouts == {0, FiniteTicks, portMAX_DELAY}

\* producer and consumer running concurrently; MaxSendCalls is below the
\* capacity, so no send finds the queue full (SpecCap covers that branch)
Next ==
    \/ \E p \in Priorities, tw \in SendTimeouts : SendCall(p, tw, MaxSendCalls)
    \/ \E tw \in RecvTimeouts : RecvCall(tw, MaxRecvCalls)
    \/ SendStepsWithRoom
    \/ RecvSteps
    \/ Tick

Spec == Init /\ [][Next]_vars

(***************************************************************************)
(* SpecCap: the producer outruns a slow consumer.  ao_ui keeps sending     *)
(* with timeout 0 (as ao_led_send does) until the queue has refused        *)
(* CapExtraSends events; ao_led starts receiving (portMAX_DELAY, as its task does) only once the queue is    *)
(* nearly full.                                                            *)
(***************************************************************************)
NextCap ==
    \/ \E p \in Priorities : SendCall(p, 0, PQ_MAX_EVENT_SIZE + CapExtraSends)
    \/ /\ size >= PQ_MAX_EVENT_SIZE - 1
       /\ RecvCall(portMAX_DELAY, CapRecvCalls)
    \/ SendSteps
    \/ RecvTakeSem
    \/ RecvTakeMutex
    \/ RecvMutexTimeout
    \/ RecvRemove
    \/ RecvHeapify
    \/ RecvGiveMutex
    \/ Tick

SpecCap == Init /\ [][NextCap]_vars

(***************************************************************************)
(* SpecBatch: one thread of control.  k <= PQ_MAX_EVENT_SIZE sends, each   *)
(* run to completion, followed by k receives, each run to completion.      *)
(***************************************************************************)
BatchSend ==
    /\ pc[LED] = "idle"
    /\ recvCalls = 0
    /\ \E p \in Priorities : SendCall(p, 0, PQ_MAX_EVENT_SIZE)

BatchRecv ==
    /\ pc[UI] = "idle"
    /\ recvCalls < BagSize(sentBag)
    /\ RecvCall(0, PQ_MAX_EVENT_SIZE)

NextBatch ==
    \/ BatchSend
    \/ BatchRecv
    \/ SendTakeMutex
    \/ SendInsert
    \/ SendHeapify
    \/ SendGiveSem
    \/ SendGiveMutex
    \/ RecvTakeSem
    \/ RecvTakeMutex
    \/ RecvRemove
    \/ RecvHeapify
    \/ RecvGiveMutex

SpecBatch == Init /\ [][NextBatch]_vars

(***************************************************************************)
(* SpecLive: the two active objects as the application runs them.  ao_ui   *)
(* sends LiveSends events through ao_led_send (timeout 0) and stops;       *)
(* ao_led calls xPriorityQueueReceive with portMAX_DELAY in a loop for     *)
(* ever (the bound on its calls exceeds every count the semaphore can      *)
(* grant, so it never stops the loop).  Both tasks have the same priority  *)
(* and are time-sliced: each is weakly fair.  The clock is not constrained.*)
(***************************************************************************)
UiNext ==
    \/ \E p \in Priorities : SendCall(p, 0, LiveSends)
    \/ SendStepsWithRoom

LedNext ==
    \/ RecvCall(portMAX_DELAY, PQ_MAX_EVENT_SIZE + LiveSends + 1)
    \/ RecvTakeSem
    \/ RecvTakeMutex
    \/ RecvMutexTimeout
    \/ RecvRemove
    \/ RecvEmpty
    \/ RecvHeapify
    \/ RecvGiveMutex

NextLive ==
    \/ UiNext
    \/ LedNext
    \/ Tick

SpecLive == Init /\ [][NextLive]_vars /\ WF_vars(UiNext) /\ WF_vars(LedNext)

(******************************* claims ************************************)
Idle == \A t \in Tasks : pc[t] = "idle"

\* positions between acquiring and releasing pq->mutex
InCritical(t) ==
    pc[t] \in {"s_check", "s_heapify", "s_give_sem", "s_give_mutex",
               "r_check", "r_heapify", "r_give_mutex"}

\* task t takes a step of its call
Steps(t) == pc'[t] # pc[t]

IsMaxHeap(evs, sz) ==
    \A i \in 0..(sz - 1) : \A c \in {2 * i + 1, 2 * i + 2} :
        c < sz => At(evs, i) >= At(evs, c)

\* C1: the event a receive copies out while it holds the mutex has a priority
\* >= that of every event enqueued at that moment (both implementations).
C1_ReceiveTakesMaximum ==
    [][(pc[LED] = "r_check" /\ Steps(LED))
          => \A i \in 0..(size - 1) : evt' >= At(events, i)]_vars

\* C2: whenever no task holds the mutex, events[0..size-1] is in max-heap
\* order (both implementations).
C2_HeapOrderWhenUnlocked == mutex = Free => IsMaxHeap(events, size)

\* C3: whenever no call is in progress, the events accepted by the sends that
\* returned pdPASS are exactly the events handed back by the receives that
\* returned pdPASS plus the events stored: nothing lost, nothing duplicated,
\* nothing handed back that was not sent.
C3_NoLossNoDuplication ==
    Idle => sentBag = BagSum(recvBag, BagOfSeq(events))

\* C4: 0 <= size <= PQ_MAX_EVENT_SIZE always, and whenever no call is in
\* progress size = (sends that returned pdPASS) - (receives that returned pdPASS).
C4_RoundTripCount ==
    /\ size \in 0..PQ_MAX_EVENT_SIZE
    /\ Idle => size = BagSize(sentBag) - BagSize(recvBag)

C6_EmptyReceiveTimesOut ==
    [][(/\ pc[LED] = "r_take_sem"
        /\ ticksToWait[LED] # portMAX_DELAY
        /\ size = 0
        /\ pc[UI] = "idle"
        /\ Steps(LED))
          => /\ pc'[LED] = "idle"
             /\ ret'[LED] = "pdFAIL"
             /\ waited[LED] >= ticksToWait[LED]
             /\ UNCHANGED queueVars]_vars

\* C7: whenever no call is in progress the count of eventSemaphore equals size.
C7_CountEqualsSize == Idle => eventSemaphore = size

\* C8: once the producer has stopped sending, the consumer loop empties the
\* queue: no event stays in the array for ever.
C8_EventualDelivery ==
    (pc[UI] = "idle" /\ sendCalls = LiveSends) ~> (size = 0)

\* C9: a task that is at a position where events[] or size is read or written
\* holds the mutex, so at most one task is inside at a time.
C9_MutualExclusion ==
    /\ \A t \in Tasks : InCritical(t) => mutex = t
    /\ ~(InCritical(UI) /\ InCritical(LED))

\* the consumer has waited for the mutex while the producer was inside
C9_Witness ==
    /\ InCritical(UI)
    /\ pc[LED] = "r_take_mutex"
    /\ waited[LED] > 0

\* C10: k sends run to completion followed by k receives run to completion
\* hand back priorities in non-increasing order.
C10_BatchNonIncreasing ==
    [][(pc[LED] = "r_give_mutex" /\ Steps(LED) /\ handed # Uninit)
          => handed' <= handed]_vars

\* C11: a send that leaves its mutex take while another task holds the mutex
\* (the take timed out) returns pdFAIL, not before ticksToWait has elapsed, and
\* leaves size, the events, the semaphore count and the mutex as they were:
\* the event is not inserted, no receiver is signalled.
C11_SendMutexTimeoutNoEffect ==
    [][(pc[UI] = "s_take_mutex" /\ mutex # Free /\ Steps(UI))
          => /\ pc'[UI] = "idle"
             /\ ret'[UI] = "pdFAIL"
             /\ waited[UI] >= ticksToWait[UI]
             /\ UNCHANGED <<queueVars, eventSemaphore, mutex, sentBag>>]_vars

\* a send has returned pdFAIL while the consumer was inside its critical
\* section and the queue had room
C11_Witness ==
    /\ pc[UI] = "idle"
    /\ ret[UI] = "pdFAIL"
    /\ InCritical(LED)
    /\ size < PQ_MAX_EVENT_SIZE

(***************************************************************************)
(* SpecBlock: as SpecCap, but every send is called with a timeout of       *)
(* FiniteTicks ticks, the case the header documents as "will block if the  *)
(* queue is full, until space becomes available or the timeout expires".   *)
(***************************************************************************)
NextBlock ==
    \/ \E p \in Priorities : SendCall(p, FiniteTicks, PQ_MAX_EVENT_SIZE + CapExtraSends)
    \/ /\ size >= PQ_MAX_EVENT_SIZE - 1
       /\ RecvCall(portMAX_DELAY, CapRecvCalls)
    \/ SendSteps
    \/ RecvTakeSem
    \/ RecvTakeMutex
    \/ RecvMutexTimeout
    \/ RecvRemove
    \/ RecvHeapify
    \/ RecvGiveMutex
    \/ Tick

SpecBlock == Init /\ [][NextBlock]_vars

\* C12: a send called with ticksToWait > 0 that finds the queue full waits
\* for space: it returns pdFAIL for a full queue only once ticksToWait ticks
\* have elapsed (a slot freed earlier lets it insert and return pdPASS).
C12_FullSendWaitsForSpace ==
    [][(/\ pc[UI] = "s_check"
        /\ QueueFull(size)
        /\ ticksToWait[UI] > 0
        /\ Steps(UI)
        /\ ret'[UI] = "pdFAIL")
          => waited[UI] >= ticksToWait[UI]]_vars

(***************************************************************************)
(* SpecOutcome: a burst of button pulses.  ao_ui forwards each pulse as a  *)
(* HIGH_PRIORITY event (ao_led_send, timeout 0) until the queue has been   *)
(* filled and OutcomeExtraSends more sends have been issued, so that one   *)
(* run can see a send refused for each cause; ao_led starts receiving once *)
(* the queue is nearly full.                                               *)
(***************************************************************************)
NextOutcome ==
    \/ SendCall(HIGH_PRIORITY, 0, PQ_MAX_EVENT_SIZE + OutcomeExtraSends)
    \/ /\ size >= PQ_MAX_EVENT_SIZE - 1
       /\ RecvCall(portMAX_DELAY, CapRecvCalls)
    \/ SendSteps
    \/ RecvTakeSem
    \/ RecvTakeMutex
    \/ RecvMutexTimeout
    \/ RecvRemove
    \/ RecvHeapify
    \/ RecvGiveMutex
    \/ Tick

SpecOutcome == Init /\ [][NextOutcome]_vars

\* C13 (as stated): the value a send returns tells its caller which of the
\* three outcomes happened: a mutex timeout and a full queue are never
\* reported by the same value, and neither by the value of a success.
C13_FailureKindsDistinguished ==
    /\ \A c \in FailCauses : failRet[c] # "pdPASS"
    /\ (failRet["timeout"] # "none" /\ failRet["full"] # "none")
          => failRet["timeout"] # failRet["full"]

\* C13 (amended): a send returns one of two values: pdPASS when the event has
\* been inserted, and the same pdFAIL for a mutex timeout and for a full
\* queue; its caller can tell success from failure and nothing more.
C13_PassOrFailOnly ==
    [][(Steps(UI) /\ pc'[UI] = "idle")
          => /\ ret'[UI] = IF pc[UI] = "s_give_mutex" THEN "pdPASS" ELSE "pdFAIL"
             /\ pc[UI] \in {"s_take_mutex", "s_check", "s_give_mutex"}
             /\ pc[UI] = "s_take_mutex" => failRet'["timeout"] = "pdFAIL"
             /\ pc[UI] = "s_check" => failRet'["full"] = "pdFAIL"]_vars

\* one run has seen a send accepted, a send timed out and a send refused
C13_Witness ==
    /\ BagSize(sentBag) > 0
    /\ failRet["timeout"] = "pdFAIL"
    /\ failRet["full"] = "pdFAIL"

\* C14: a receive that holds a token and the mutex and finds size = 0 gives
\* the mutex back and returns pdFAIL, writing nothing to *event and leaving
\* size alone; a receive returns pdPASS only after copying out events[0].
C14_EmptyReceiveFails ==
    [][(pc[LED] = "r_give_mutex" /\ Steps(LED))
          => /\ mutex' = Free
             /\ size' = size
             /\ evt = Uninit => ret'[LED] = "pdFAIL"
             /\ ret'[LED] = "pdPASS" => evt # Uninit]_vars

(***************************************************************************)
(* SpecCreate: the program from before ao_led_init.  xPriorityQueueCreate  *)
(* runs first, each of its three allocations free to fail; the tasks call  *)
(* send and receive (as in Spec) only on a handle that was returned.       *)
(***************************************************************************)
NextCreate ==
    \/ CreateMalloc
    \/ CreateMutex
    \/ CreateCounting
    \/ Next

SpecCreate == InitCreate /\ [][NextCreate]_vars

\* C15: xPriorityQueueCreate returns NULL when the allocation, the mutex
\* creation or the counting-semaphore creation fails, and a call that has
\* returned NULL has left nothing allocated.
C15_CreateFailureReleasesAll ==
    /\ (cpc = "c_done" /\ hpq = NoHandle) => allocated = {}
    /\ (cpc = "c_done" /\ hpq = "pq") => allocated = Resources

\* the counts of eventSemaphore the receive in progress has taken and not
\* yet matched by a removal
TakenCounts(t) == IF pc[t] = "r_take_mutex" THEN 1 ELSE 0

\* C16: a receive that returns pdFAIL, after giving up on the semaphore or on
\* the mutex, has changed nothing: size and the events are untouched and any
\* count it took from eventSemaphore is back, so a retry sees the same queue.
C16_FailedReceiveNoEffect ==
    [][(Steps(LED) /\ pc'[LED] = "idle" /\ ret'[LED] = "pdFAIL")
          => /\ UNCHANGED queueVars
             /\ eventSemaphore' = eventSemaphore + TakenCounts(LED)]_vars

(***************************** ao_ui: ao_task_ ******************************)
\* mutant: the cases of PULSE and LONG exchanged
UiPriority_swapped(m) ==
    CASE m = "AO_UI_MESSAGE_PULSE" -> LOW_PRIORITY
      [] m = "AO_UI_MESSAGE_SHORT" -> MEDIUM_PRIORITY
      [] m = "AO_UI_MESSAGE_LONG" -> HIGH_PRIORITY

\* sendEvt.priority of each case of the switch
UiPriority(m) ==
    CASE m = "AO_UI_MESSAGE_PULSE" -> HIGH_PRIORITY
      [] m = "AO_UI_MESSAGE_SHORT" -> MEDIUM_PRIORITY
      [] m = "AO_UI_MESSAGE_LONG" -> LOW_PRIORITY

\* the messages the switch has a case for
Handled == Messages \ {"other"}

\* the LOGGER_INFO line that follows ao_led_send in each case
SentLine(m) ==
    CASE m = "AO_UI_MESSAGE_PULSE" -> "Send a HIGH_PRIORITY event to the priority queue"
      [] m = "AO_UI_MESSAGE_SHORT" -> "Send a MEDIUM_PRIORITY event to the priority queue"
      [] m = "AO_UI_MESSAGE_LONG" -> "Send a LOW_PRIORITY event to the priority queue"

SentLines == {SentLine(m) : m \in Handled}
BadMessageLine == "ERROR - Bad message"
WaitingLine == "Waiting event"

\* LOGGER_INFO("Waiting event"); pdPASS == xQueueReceive(hqueue, &rcvEvt, portMAX_DELAY)
UiTake ==
    /\ rcvEvt = NoMessage
    /\ pc[UI] = "idle"
    /\ msgsTaken < MaxMsgs
    /\ \E m \in Messages : rcvEvt' = m
    /\ uiLog' = WaitingLine
    /\ sendsAtTake' = sendCalls
    /\ msgsTaken' = msgsTaken + 1
    /\ UNCHANGED <<impl, ledVars, createVars, failRet, queueVars, mutex, eventSemaphore, pc,
                   ticksToWait, waited, sendEvt, evt, ret, histVars, sendCalls,
                   recvCalls>>

\* case X: sendEvt.priority = ...; ao_led_send(&ao_led, sendEvt), which calls
\* xPriorityQueueSend(hao->hpq, &evt, (TickType_t)0U)
UiSend ==
    /\ rcvEvt \in Handled
    /\ sendCalls = sendsAtTake
    /\ SendCall(UiPriority(rcvEvt), 0, MaxMsgs)

\* ao_led_send has returned, its value dropped: LOGGER_INFO("Send a ..."); break
UiLogSent ==
    /\ rcvEvt \in Handled
    /\ pc[UI] = "idle"
    /\ sendCalls > sendsAtTake
    /\ uiLog' = SentLine(rcvEvt)
    /\ rcvEvt' = NoMessage
    /\ UNCHANGED <<impl, ledVars, createVars, failRet, queueVars, mutex, eventSemaphore, pc,
                   ticksToWait, waited, sendEvt, evt, ret, histVars, sendCalls,
                   recvCalls, sendsAtTake, msgsTaken>>

\* default: LOGGER_LOG("ERROR - Bad message"); break
UiBadMessage ==
    /\ rcvEvt \notin Handled
    /\ rcvEvt # NoMessage
    /\ uiLog' = BadMessageLine
    /\ rcvEvt' = NoMessage
    /\ UNCHANGED <<impl, ledVars, createVars, failRet, queueVars, mutex, eventSemaphore, pc,
                   ticksToWait, waited, sendEvt, evt, ret, histVars, sendCalls,
                   recvCalls, sendsAtTake, msgsTaken>>

(***************************************************************************)
(* SpecUI: ao_ui's task loop feeding the queue while ao_led's task         *)
(* receives.  The mailbox delivers up to MaxMsgs messages of any value.    *)
(* Both tasks run at tskIDLE_PRIORITY + 1 and are time-sliced: the UI task *)
(* is weakly fair.                                                         *)
(***************************************************************************)
UiTask ==
    \/ UiTake
    \/ UiSend
    \/ UiLogSent
    \/ UiBadMessage
    \/ SendStepsWithRoom

NextUI ==
    \/ UiTask
    \/ RecvCall(portMAX_DELAY, MaxRecvCalls)
    \/ RecvTakeSem
    \/ RecvTakeMutex
    \/ RecvMutexTimeout
    \/ RecvRemove
    \/ RecvEmpty
    \/ RecvHeapify
    \/ RecvGiveMutex
    \/ Tick

SpecUI == Init /\ [][NextUI]_vars /\ WF_vars(UiTask)

\* C17: for each message taken from the mailbox the UI task issues at most one
\* send: PULSE is sent as HIGH_PRIORITY, SHORT as MEDIUM_PRIORITY, LONG as
\* LOW_PRIORITY; any other message is logged as bad and dropped without a
\* send; and every reaction ends with the task back waiting on its mailbox.
C17_UiMapsMessageToOneSend ==
    /\ [][(pc[UI] = "idle" /\ pc'[UI] # "idle")
             => /\ sendCalls = sendsAtTake
                /\ \/ rcvEvt = "AO_UI_MESSAGE_PULSE" /\ sendEvt' = HIGH_PRIORITY
                   \/ rcvEvt = "AO_UI_MESSAGE_SHORT" /\ sendEvt' = MEDIUM_PRIORITY
                   \/ rcvEvt = "AO_UI_MESSAGE_LONG" /\ sendEvt' = LOW_PRIORITY]_vars
    /\ [][(rcvEvt # NoMessage /\ rcvEvt' = NoMessage)
             => /\ pc'[UI] = "idle"
                /\ sendCalls - sendsAtTake = IF rcvEvt = "other" THEN 0 ELSE 1
                /\ rcvEvt = "other" => uiLog' = BadMessageLine]_vars
    /\ (rcvEvt # NoMessage) ~> (rcvEvt = NoMessage)

\* a bad message has been dropped and a pulse sent as a HIGH_PRIORITY event:
\* two messages taken, one send issued, the task waiting again
C17_Witness ==
    /\ rcvEvt = NoMessage
    /\ msgsTaken = 2
    /\ sendCalls = 1
    /\ sentBag[HIGH_PRIORITY] = 1
    /\ uiLog \in {BadMessageLine, SentLine("AO_UI_MESSAGE_PULSE")}

\* C18: when the send issued for a message has returned pdFAIL (mutex held
\* or queue full), what the UI task logs for that message is a failure, never
\* the line of an event sent, and the task goes on with its loop.
C18_FailedSendLoggedAsFailure ==
    [][(rcvEvt \in Handled /\ rcvEvt' = NoMessage /\ ret[UI] = "pdFAIL")
          => uiLog' \notin SentLines]_vars

\* C19: the count of eventSemaphore never exceeds size; so a receive that
\* has taken a count and the mutex finds size > 0, and the xSemaphoreGive of
\* a send always finds the count below its maximum.
C19_CountAtMostSize ==
    /\ eventSemaphore <= size
    /\ pc[LED] = "r_check" => 0 < size
    /\ pc[UI] = "s_give_sem" => eventSemaphore < SemMaxCount

\* C20: a call that has taken the mutex gives it exactly once before it
\* returns and no call gives a mutex it does not hold: the mutex changes hands
\* only from free to the task taking it and from its holder to free at the
\* holder's give; a task outside a call never owns it; and the holder is never
\* blocked, so producer and consumer cannot deadlock on the queue.
C20_MutexTakenIsGivenOnce ==
    [][\A t \in Tasks :
          /\ (mutex # t /\ mutex' = t)
                => /\ mutex = Free
                   /\ pc[t] \in {"s_take_mutex", "r_take_mutex"}
                   /\ InCritical(t)'
          /\ (mutex = t /\ mutex' # t)
                => /\ mutex' = Free
                   /\ InCritical(t)
                   /\ pc'[t] = "idle"
          /\ (InCritical(t) /\ pc'[t] = "idle") => (mutex = t /\ mutex' = Free)
          /\ pc'[t] = "idle" => mutex' # t
          /\ mutex' = t => ~Blocked(t)']_vars

\* both tasks have been through the mutex and are back outside, the mutex
\* free, and a send has also taken and given it on the full-queue path
C20_Witness ==
    /\ Idle
    /\ mutex = Free
    /\ BagSize(sentBag) > 0
    /\ BagSize(recvBag) > 0
    /\ failRet["full"] = "pdFAIL"

(***************************** ao_led: ao_task_ *****************************)
\* HAL_GPIO_WritePin(hao->info[index].port, hao->info[index].pin, state).  An
\* index outside info[] reads a port and a pin from beyond the array and
\* writes through them: any LED may end up set or reset
WritePin(on, index, set) ==
    IF index \in Leds
    THEN {IF set THEN on \cup {index} ELSE on \ {index}}
    ELSE SUBSET Leds

\* the receive has returned pdPASS and the body of the inner while has not run
ResultPending == pc[LED] = "idle" /\ BagSize(recvBag) > ledHandled

\* while (pdPASS == xPriorityQueueReceive(hao->hpq, &evt, portMAX_DELAY));
\* after a pdFAIL the outer loop calls it again
LedReceive(maxCalls) ==
    /\ lpc = "l_receive"
    /\ ~ResultPending
    /\ RecvCall(portMAX_DELAY, maxCalls)

\* HAL_GPIO_WritePin(..., GPIO_PIN_SET); vTaskDelay(LED_ON_PERIOD_TICKS_) begins
LedSet ==
    /\ lpc = "l_receive"
    /\ ResultPending
    /\ ledOn' \in WritePin(ledOn, handed, TRUE)
    /\ ledHandled' = ledHandled + 1
    /\ ledTicks' = 0
    /\ lpc' = "l_delay"
    /\ UNCHANGED <<impl, uiVars, createVars, failRet, queueVars, mutex, eventSemaphore,
                   pc, ticksToWait, waited, sendEvt, evt, ret, histVars, sendCalls,
                   recvCalls>>

\* one tick of the scheduler's clock while the task is in vTaskDelay
LedDelayTick ==
    /\ lpc = "l_delay"
    /\ ledTicks < LedOnPeriodTicks
    /\ ledTicks' = ledTicks + 1
    /\ UNCHANGED <<impl, uiVars, createVars, failRet, queueVars, mutex, eventSemaphore,
                   pc, ticksToWait, waited, sendEvt, evt, ret, histVars, sendCalls,
                   recvCalls, lpc, ledOn, ledHandled>>

\* vTaskDelay has returned: HAL_GPIO_WritePin(..., GPIO_PIN_RESET)
LedReset ==
    /\ lpc = "l_delay"
    /\ ledTicks >= LedOnPeriodTicks
    /\ ledOn' \in WritePin(ledOn, handed, FALSE)
    /\ ledTicks' = 0
    /\ lpc' = "l_receive"
    /\ UNCHANGED <<impl, uiVars, createVars, failRet, queueVars, mutex, eventSemaphore,
                   pc, ticksToWait, waited, sendEvt, evt, ret, histVars, sendCalls,
                   recvCalls, ledHandled>>

(***************************************************************************)
(* SpecLed: ao_led's task loop driving the LEDs while a producer sends     *)
(* events of any priority with timeout 0 (as ao_led_send does).            *)
(***************************************************************************)
LedTask ==
    \/ LedReceive(MaxRecvCalls)
    \/ RecvTakeSem
    \/ RecvTakeMutex
    \/ RecvMutexTimeout
    \/ RecvRemove
    \/ RecvEmpty
    \/ RecvHeapify
    \/ RecvGiveMutex
    \/ LedSet
    \/ LedDelayTick
    \/ LedReset

NextLed ==
    \/ \E p \in Priorities : SendCall(p, 0, MaxSendCalls)
    \/ SendStepsWithRoom
    \/ LedTask
    \/ Tick

SpecLed == Init /\ [][NextLed]_vars

\* C21: for each event it receives the LED task sets exactly the LED indexed
\* by the event's priority, keeps it set for the whole period and resets it
\* before its next receive: at most one LED is on at any time and every LED
\* is off while the task is inside xPriorityQueueReceive.
C21_OneLedPerEvent ==
    /\ Cardinality(ledOn) <= 1
    /\ lpc = "l_receive" => ledOn = {}
    /\ lpc = "l_delay" => (handed \in Priorities /\ ledOn = {handed}
                           /\ pc[LED] = "idle")

(************************ array indices of the heap ************************)
\* the order test of the two files: '<' in app/src/priority_queue.c, '>' in
\* unnamed/part_001
Before(a, b) == IF impl = "app" THEN a < b ELSE a > b

\* mutant: the child test off by one (child <= pq->size)
InHeap_offByOne(child, sz) == child <= sz

\* leftChild < pq->size, rightChild < pq->size
InHeap(child, sz) == child < sz

\* pq->events[i].priority; a slot past the stored events holds a stale value
ReadAt(evs, i) == IF i + 1 \in DOMAIN evs THEN evs[i + 1] ELSE GARBAGE_PRIORITY

\* _swap(&pq->events[i], &pq->events[j])
SwapAt(evs, i, j) ==
    IF i + 1 \in DOMAIN evs /\ j + 1 \in DOMAIN evs THEN swap(evs, i, j) ELSE evs

\* more nested calls than this cannot belong to a descent through the array
HeapifyFuel == PQ_MAX_EVENT_SIZE + 1

\* _heapifyUp(pq, index) run with a record of what it touches: the array it
\* leaves, the indices it reads, the indices it swaps, and whether it returned
\* within HeapifyFuel nested calls
RECURSIVE heapifyUpRun(_, _, _)
heapifyUpRun(evs, index, fuel) ==
    LET parentIndex == CDiv(index - 1, 2)
        read == IF parentIndex >= 0 THEN {index, parentIndex} ELSE {}
    IN  IF fuel = 0
        THEN [evs |-> evs, reads |-> {}, swaps |-> {}, done |-> FALSE]
        ELSE IF parentIndex >= 0 /\ Before(ReadAt(evs, index), ReadAt(evs, parentIndex))
        THEN LET r == heapifyUpRun(SwapAt(evs, index, parentIndex), parentIndex, fuel - 1)
             IN  [evs |-> r.evs,
                  reads |-> read \cup r.reads,
                  swaps |-> {index, parentIndex} \cup r.swaps,
                  done |-> r.done]
        ELSE [evs |-> evs, reads |-> read, swaps |-> {}, done |-> TRUE]

\* _heapifyDown(pq, index) run with the same record
RECURSIVE heapifyDownRun(_, _, _, _)
heapifyDownRun(evs, sz, index, fuel) ==
    LET leftChild == 2 * index + 1
        rightChild == 2 * index + 2
        takeLeft == InHeap(leftChild, sz)
                      /\ Before(ReadAt(evs, leftChild), ReadAt(evs, index))
        s1 == IF takeLeft THEN leftChild ELSE index
        takeRight == InHeap(rightChild, sz)
                       /\ Before(ReadAt(evs, rightChild), ReadAt(evs, s1))
        chosen == IF takeRight THEN rightChild ELSE s1
        read == (IF InHeap(leftChild, sz) THEN {leftChild, index} ELSE {})
                   \cup (IF InHeap(rightChild, sz) THEN {rightChild, s1} ELSE {})
    IN  IF fuel = 0
        THEN [evs |-> evs, reads |-> {}, swaps |-> {}, done |-> FALSE]
        ELSE IF chosen # index
        THEN LET r == heapifyDownRun(SwapAt(evs, index, chosen), sz, chosen, fuel - 1)
             IN  [evs |-> r.evs,
                  reads |-> read \cup r.reads,
                  swaps |-> {index, chosen} \cup r.swaps,
                  done |-> r.done]
        ELSE [evs |-> evs, reads |-> read, swaps |-> {}, done |-> TRUE]

\* a run that returned, read only stored events inside the array and swapped
\* only stored events
RunInBounds(r, sz) ==
    /\ r.done
    /\ r.reads \subseteq 0..(PQ_MAX_EVENT_SIZE - 1)
    /\ r.reads \subseteq 0..(sz - 1)
    /\ r.swaps \subseteq 0..(sz - 1)

\* C22: every index at which send, receive, _heapifyUp and _heapifyDown read
\* or write events[] lies in 0 .. PQ_MAX_EVENT_SIZE - 1, swaps touch only
\* indices below size, and both heapify functions return, for every size
\* from 0 to 10; _heapifyUp started at index 0 computes parent 0 and does not
\* swap.
C22_IndicesInBounds ==
    /\ (pc[UI] = "s_check" /\ ~QueueFull(size))
          => size \in 0..(PQ_MAX_EVENT_SIZE - 1)
    /\ pc[UI] = "s_heapify"
          => LET r == heapifyUpRun(events, size - 1, HeapifyFuel)
             IN  /\ size \in 1..PQ_MAX_EVENT_SIZE
                 /\ RunInBounds(r, size)
                 /\ r.evs = heapifyUp(events, size - 1)
                 /\ size = 1 => (CDiv(0 - 1, 2) = 0 /\ r.swaps = {})
    /\ (pc[LED] = "r_check" /\ 0 < size)
          => {0, size - 1} \subseteq 0..(PQ_MAX_EVENT_SIZE - 1)
    /\ pc[LED] = "r_heapify"
          => LET r == heapifyDownRun(events, size, 0, HeapifyFuel)
             IN  /\ size \in 0..(PQ_MAX_EVENT_SIZE - 1)
                 /\ RunInBounds(r, size)
                 /\ r.evs = heapifyDown(events, size, 0)

\* _heapifyDown is about to run on the 9 events left of a full queue and will
\* swap along more than one level
C22_Witness ==
    /\ pc[LED] = "r_heapify"
    /\ size = PQ_MAX_EVENT_SIZE - 1
    /\ Cardinality(heapifyDownRun(events, size, 0, HeapifyFuel).swaps) >= 3

=============================================================================
